---- MODULE Spec2Model ----
(***************************************************************************)
(* Model of the products app of PLATZI_STORE_APP: the forms of             *)
(* products/forms.py and the five views of products/views.py.              *)
(*                                                                         *)
(* Every view is one action: it takes the request and the outcome of each  *)
(* upstream HTTP call it makes and yields the response, the upstream calls *)
(* issued, the flash messages and the template context.                    *)
(*                                                                         *)
(* Library behaviour the code relies on is modelled as the library defines *)
(* it: django.forms field cleaning, django.core.paginator.Paginator, and   *)
(* requests (>= 2.27), whose Response.json() raises                        *)
(* requests.exceptions.JSONDecodeError, a subclass of both                 *)
(* RequestException and ValueError.                                        *)
(***************************************************************************)
EXTENDS Integers, Sequences, FiniteSets, TLC

VARIABLES request, response, upstream_calls, messages, context, form,
          search_form, returned_data

vars == <<request, response, upstream_calls, messages, context, form,
          search_form, returned_data>>

(***************************************************************************)
(* Bounds of the model.                                                    *)
(***************************************************************************)
MaxProducts == 25   \* longest product list the upstream returns
MaxPage == 4        \* largest requested page number (smallest is -1)

(***************************************************************************)
(* Python's None and optional values: None is the empty tuple, a present   *)
(* value x is <<x>>.                                                       *)
(***************************************************************************)
None == << >>
Some(x) == <<x>>

(***************************************************************************)
(* Texts.  A text is its whitespace padding (ws characters, leading or     *)
(* trailing) around a core of len characters that starts and ends with a   *)
(* non-blank one.  str.strip() removes the padding.                        *)
(***************************************************************************)
Text(w, l) == [ws |-> w, len |-> l]
strip(t) == [ws |-> 0, len |-> t.len]
TextLength(t) == t.ws + t.len
IsEmptyText(t) == TextLength(t) = 0

TitleMaxLength == 200
PerPage == 12

(***************************************************************************)
(* Decimals.  A submitted price is empty, not a number ("text"), or a      *)
(* decimal literal: sign, integer part and the digits written after the    *)
(* point.                                                                  *)
(***************************************************************************)
Dec(n, w, f) == [kind |-> "number", neg |-> n, whole |-> w, frac |-> f]
EmptyPrice == [kind |-> "empty", neg |-> FALSE, whole |-> 0, frac |-> << >>]
TextPrice == [kind |-> "text", neg |-> FALSE, whole |-> 0, frac |-> << >>]

RECURSIVE NumDigits(_)
NumDigits(n) == IF n < 10 THEN 1 ELSE 1 + NumDigits(n \div 10)

RECURSIVE AllZero(_)
AllZero(f) == IF f = << >> THEN TRUE ELSE Head(f) = 0 /\ AllZero(Tail(f))

\* The first three decimals of a literal as a number of thousandths.
FracDigit(f, i) == IF i <= Len(f) THEN f[i] ELSE 0
Thousandths(f) == 100 * FracDigit(f, 1) + 10 * FracDigit(f, 2) + FracDigit(f, 3)
BeyondThousandths(f) == Len(f) > 3 /\ ~AllZero(SubSeq(f, 4, Len(f)))

IsZeroDecimal(d) == d.whole = 0 /\ AllZero(d.frac)

\* price <= 0 (forms.py, clean_price)
DecimalLeZero(d) == d.neg \/ IsZeroDecimal(d)

(***************************************************************************)
(* URLs.  A submitted URL is its scheme ("" when none is written) and its  *)
(* host; the empty URL has neither.                                        *)
(***************************************************************************)
URL(s, h) == [scheme |-> s, host |-> h]
EmptyURL == URL("", "")
ValidHosts == {"a.io", "b.io"}
ValidSchemes == {"http", "https", "ftp", "ftps"}

(***************************************************************************)
(* Outcomes of one upstream HTTP call.                                     *)
(*   ok          the success status the call site looks for, JSON body     *)
(*   malformed   the success status, with a body that is not JSON          *)
(*   not_found   status 404                                                *)
(*   status      another non-success status (4xx/5xx), JSON error body     *)
(*   status_raw  another non-success status, body that is not JSON         *)
(*   connection  requests raises a RequestException (refused, timeout)     *)
(***************************************************************************)
Outcome(k, b) == [kind |-> k, body |-> b]

Category(i, n) == [id |-> i, name |-> n]
CategoryLists ==
    { << >>,
      << Category("1", "Clothes") >>,
      << Category("1", "Clothes"), Category("2", "Shoes") >>,
      << Category("1", "Clothes"), Category("x", "Misc") >> }

CategoryOutcomes ==
    { Outcome("ok", b) : b \in CategoryLists }
      \cup { Outcome(k, << >>) : k \in {"malformed", "status", "connection"} }

(***************************************************************************)
(* forms.py, ProductForm.load_categories: the choices of categoryId.       *)
(***************************************************************************)
RECURSIVE CategoryChoices(_)
CategoryChoices(cats) ==
    IF cats = << >> THEN << >>
    ELSE << <<Head(cats).id, Head(cats).name>> >> \o CategoryChoices(Tail(cats))

ProductForm_load_categories(o) ==
    IF o.kind = "ok"
    THEN << <<"", "Selecciona una categoria">> >> \o CategoryChoices(o.body)
    ELSE IF o.kind = "status"
    THEN << <<"", "Error al cargar categorias">> >>
    ELSE \* RequestException, raised by requests.get or by response.json()
         << <<"", "Error de conexion - Recarga la pagina">> >>

(***************************************************************************)
(* forms.py, ProductSearchForm.load_categories: the choices of category.   *)
(* A non-200 status assigns nothing: the field keeps its declared          *)
(* choices=[].                                                             *)
(***************************************************************************)
ProductSearchForm_load_categories(o) ==
    IF o.kind = "ok"
    THEN << <<"", "Todas las categorias">> >> \o CategoryChoices(o.body)
    ELSE IF o.kind = "status"
    THEN << >>
    ELSE << <<"", "Error al cargar categorias">> >>

(***************************************************************************)
(* django.forms field cleaning, as declared by ProductForm's fields.       *)
(* Each yields [ok, value, error]: the cleaned value, or the error code.   *)
(***************************************************************************)
Cleaned(v) == [ok |-> TRUE, value |-> Some(v), error |-> ""]
Invalid(e) == [ok |-> FALSE, value |-> None, error |-> e]

\* CharField(required=True, strip=True, max_length=m); m = 0 for no limit.
CharField_clean(raw, m) ==
    LET value == strip(raw) IN
    IF IsEmptyText(value) THEN Invalid("required")
    ELSE IF m > 0 /\ TextLength(value) > m THEN Invalid("max_length")
    ELSE Cleaned(value)

\* MinValueValidator(0.01): value < 0.01 fails.  The limit is the binary
\* double written 0.01, which lies strictly between 1/100 and 1/100 + 10^-18,
\* so a cleaned Decimal of at most 18 decimals is below it iff it is <= 1/100.
BelowMinValue(d) ==
    \/ d.neg
    \/ /\ d.whole = 0
       /\ \/ Thousandths(d.frac) < 10
          \/ Thousandths(d.frac) = 10 /\ ~BeyondThousandths(d.frac)

\* DecimalValidator(max_digits=10, decimal_places=2)
WholeDigits(d) ==
    IF d.whole = 0 THEN (IF d.frac = << >> THEN 1 ELSE 0) ELSE NumDigits(d.whole)

DecimalField_clean(raw) ==
    IF raw.kind = "empty" THEN Invalid("required")
    ELSE IF raw.kind = "text" THEN Invalid("invalid")
    ELSE IF BelowMinValue(raw) THEN Invalid("min_value")
    ELSE IF WholeDigits(raw) + Len(raw.frac) > 10 THEN Invalid("max_digits")
    ELSE IF Len(raw.frac) > 2 THEN Invalid("max_decimal_places")
    ELSE IF WholeDigits(raw) > 10 - 2 THEN Invalid("max_whole_digits")
    ELSE Cleaned(raw)

\* Variant: a choice field that accepts any non-empty value.
ChoiceField_clean_AnyValue(raw, choices) ==
    IF raw = "" THEN Invalid("required") ELSE Cleaned(raw)

\* ChoiceField(required=True): the value must be one of the loaded choices.
ChoiceField_clean(raw, choices) ==
    IF raw = "" THEN Invalid("required")
    ELSE IF \A i \in 1..Len(choices) : choices[i][1] # raw
    THEN Invalid("invalid_choice")
    ELSE Cleaned(raw)

\* URLField.to_python: a URL written without a scheme is assumed http.
URLField_to_python(raw) ==
    IF raw = EmptyURL THEN raw
    ELSE IF raw.scheme = "" THEN URL("http", raw.host)
    ELSE raw

URLValidator(u) == u.scheme \in ValidSchemes /\ u.host \in ValidHosts

URLField_clean(raw, required) ==
    LET value == URLField_to_python(raw) IN
    IF value = EmptyURL
    THEN (IF required THEN Invalid("required") ELSE Cleaned(value))
    ELSE IF ~URLValidator(value) THEN Invalid("invalid")
    ELSE Cleaned(value)

(***************************************************************************)
(* int(): the decimal strings the model uses and their values.             *)
(***************************************************************************)
IntStrings == { ToString(n) : n \in 0..9 }
int(s) == CHOOSE n \in 0..9 : ToString(n) = s

(***************************************************************************)
(* forms.py, ProductForm.  A form object: whether it is bound, the         *)
(* submitted data, the initial values, the choices of categoryId, and,     *)
(* once cleaned, the field errors and the cleaned data.                    *)
(***************************************************************************)
FieldNames ==
    {"title", "price", "description", "categoryId",
     "image_url_1", "image_url_2", "image_url_3"}

FormData(t, p, d, c, u1, u2, u3) ==
    [title |-> t, price |-> p, description |-> d, categoryId |-> c,
     image_url_1 |-> u1, image_url_2 |-> u2, image_url_3 |-> u3]

\* ProductForm.__init__: data is None (unbound) or Some(the POST data).
ProductForm__init__(data, initial, o) ==
    [is_bound |-> data # None,
     data |-> data,
     initial |-> initial,
     choices |-> ProductForm_load_categories(o),
     is_cleaned |-> FALSE,
     errors |-> << >>,
     cleaned_data |-> << >>]

clean_title(r) ==
    IF ~r.ok THEN r
    ELSE LET title == strip(r.value[1]) IN
         IF IsEmptyText(title) THEN Invalid("El titulo del producto es requerido")
         ELSE Cleaned(title)

clean_price(r) ==
    IF ~r.ok THEN r
    ELSE IF DecimalLeZero(r.value[1]) THEN Invalid("El precio debe ser mayor a 0")
    ELSE r

clean_description(r) ==
    IF ~r.ok THEN r
    ELSE LET description == strip(r.value[1]) IN
         IF IsEmptyText(description)
         THEN Invalid("La descripcion del producto es requerida")
         ELSE Cleaned(description)

clean_categoryId(r) ==
    IF ~r.ok THEN r
    ELSE IF r.value[1] = "" THEN Invalid("Debes seleccionar una categoria valida")
    ELSE IF r.value[1] \notin IntStrings THEN Invalid("Categoria invalida")
    ELSE Cleaned(int(r.value[1]))

\* BaseForm._clean_fields for one field: the field's clean(), then the
\* form's clean_<name>() when the field's own cleaning passed.
CleanField(name, data, choices) ==
    CASE name = "title" ->
            clean_title(CharField_clean(data.title, TitleMaxLength))
      [] name = "price" -> clean_price(DecimalField_clean(data.price))
      [] name = "description" ->
            clean_description(CharField_clean(data.description, 0))
      [] name = "categoryId" ->
            clean_categoryId(ChoiceField_clean(data.categoryId, choices))
      [] name = "image_url_1" -> URLField_clean(data.image_url_1, TRUE)
      [] name = "image_url_2" -> URLField_clean(data.image_url_2, FALSE)
      [] name = "image_url_3" -> URLField_clean(data.image_url_3, FALSE)

\* BaseForm.full_clean: every field is cleaned, none short-circuits another;
\* ProductForm.clean adds nothing.  An unbound form is not cleaned.
full_clean(f) ==
    IF ~f.is_bound \/ f.is_cleaned THEN f
    ELSE LET r == [n \in FieldNames |-> CleanField(n, f.data[1], f.choices)]
             good == {n \in FieldNames : r[n].ok}
         IN [f EXCEPT !.is_cleaned = TRUE,
                      !.errors = [n \in FieldNames \ good |-> r[n].error],
                      !.cleaned_data = [n \in good |-> r[n].value[1]]]

\* BaseForm.is_valid: bound and without errors (cleaning the form if needed).
is_valid(f) == f.is_bound /\ DOMAIN full_clean(f).errors = {}

\* float(Decimal): the value, without the literal's trailing zeros.
RECURSIVE StripTrailingZeros(_)
StripTrailingZeros(f) ==
    IF f # << >> /\ f[Len(f)] = 0
    THEN StripTrailingZeros(SubSeq(f, 1, Len(f) - 1))
    ELSE f

float(d) == [neg |-> d.neg, whole |-> d.whole, frac |-> StripTrailingZeros(d.frac)]

\* cleaned_data.get(name): None when the field is absent
cleaned_get(cleaned_data, name) ==
    IF name \in DOMAIN cleaned_data THEN Some(cleaned_data[name]) ELSE None

\* Variant: the loop stops before image_url_3 (range(1, 3)).
RECURSIVE image_urls_StopsAtTwo(_, _)
image_urls_StopsAtTwo(cleaned_data, i) ==
    IF i >= 3 THEN << >>
    ELSE LET url == cleaned_get(cleaned_data, "image_url_" \o ToString(i)) IN
         (IF url # None /\ url[1] # EmptyURL THEN <<url[1]>> ELSE << >>)
           \o image_urls_StopsAtTwo(cleaned_data, i + 1)

\* forms.py, get_product_data: the loop over image_url_1 .. image_url_3
RECURSIVE image_urls(_, _)
image_urls(cleaned_data, i) ==
    IF i >= 4 THEN << >>
    ELSE LET url == cleaned_get(cleaned_data, "image_url_" \o ToString(i)) IN
         (IF url # None /\ url[1] # EmptyURL THEN <<url[1]>> ELSE << >>)
           \o image_urls(cleaned_data, i + 1)

get_product_data(f) ==
    IF ~is_valid(f) THEN None
    ELSE LET cleaned_data == full_clean(f).cleaned_data IN
         Some([title |-> cleaned_data["title"],
               price |-> float(cleaned_data["price"]),
               description |-> cleaned_data["description"],
               categoryId |-> cleaned_data["categoryId"],
               images |-> image_urls(cleaned_data, 1)])

(***************************************************************************)
(* forms.py, ProductSearchForm.__init__                                    *)
(***************************************************************************)
ProductSearchForm__init__(o) ==
    [is_bound |-> FALSE, choices |-> ProductSearchForm_load_categories(o)]

(***************************************************************************)
(* Requests, responses and upstream calls.                                 *)
(***************************************************************************)
PLATZI_API_BASE_URL == "https://api.escuelajs.co/api/v1"

Request(v, m, a, id, g, p) ==
    [view |-> v, method |-> m, is_authenticated |-> a, product_id |-> id,
     GET |-> g, POST |-> p]

\* request.GET of the list view; page is absent, an integer, or other text
PageParam(k, n) == [kind |-> k, n |-> n]
Query(pg, s, c) == [page |-> pg, search |-> s, category |-> c]
NoQuery == Query(PageParam("absent", 0), "", "")

\* An upstream call: the function that issued it, the request, and the
\* outcome it met.
Call(site, verb, path, params, json, o) ==
    [site |-> site, verb |-> verb, url |-> PLATZI_API_BASE_URL \o path,
     params |-> params, json |-> json, outcome |-> o.kind, body |-> o.body]

CategoriesCall(site, o) == Call(site, "GET", "/categories", None, None, o)

Message(level, text) == [level |-> level, text |-> text]

NoResponse == [kind |-> "none", target |-> ""]
render(template) == [kind |-> "render", target |-> template]
redirect(to) == [kind |-> "redirect", target |-> to]
Raised(exception) == [kind |-> "exception", target |-> exception]

\* What a view yields: the response and what handling the request left.
Result(resp, calls, msgs, ctx, f, pd) ==
    [response |-> resp, upstream_calls |-> calls, messages |-> msgs,
     context |-> ctx, form |-> f, returned_data |-> pd]

NoContext == [title |-> ""]
NotCalled == [called |-> FALSE, result |-> None]
Returned(r) == [called |-> TRUE, result |-> r]

\* An upstream call the handler did not reach has no outcome.
NoCall == Outcome("none", << >>)

\* Variant: the view without its decorator.
login_required_Missing(req, result) == result

\* django.contrib.auth.decorators.login_required: an unauthenticated caller
\* is redirected to the login page and the view is not entered.
login_required(req, result) ==
    IF req.is_authenticated THEN result
    ELSE Result(redirect("login"), << >>, << >>, NoContext, None, NotCalled)

(***************************************************************************)
(* django.core.paginator.Paginator(object_list, per_page), with its        *)
(* defaults orphans=0 and allow_empty_first_page=True.                     *)
(***************************************************************************)
Max(a, b) == IF a >= b THEN a ELSE b

\* Paginator.num_pages: ceil(max(1, count) / per_page)
num_pages(count, per_page) == (Max(1, count) + per_page - 1) \div per_page

\* Paginator.validate_number: the page number, or the exception it raises
validate_number(number, count, per_page) ==
    IF number.kind = "text" THEN [ok |-> FALSE, n |-> 0, error |-> "PageNotAnInteger"]
    ELSE LET n == IF number.kind = "absent" THEN 1 ELSE number.n IN
         IF n < 1 THEN [ok |-> FALSE, n |-> n, error |-> "EmptyPage"]
         ELSE IF n > num_pages(count, per_page)
         THEN [ok |-> FALSE, n |-> n, error |-> "EmptyPage"]
         ELSE [ok |-> TRUE, n |-> n, error |-> ""]

\* Paginator.page(number): the slice object_list[bottom:top]
page(object_list, number, per_page) ==
    LET bottom == (number - 1) * per_page
        top == IF bottom + per_page >= Len(object_list)
               THEN Len(object_list) ELSE bottom + per_page
    IN [number |-> number, object_list |-> SubSeq(object_list, bottom + 1, top)]

\* Variant: a page number below 1 gives the first page.
get_page_Nearest(object_list, number, per_page) ==
    LET v == validate_number(number, Len(object_list), per_page) IN
    page(object_list,
         IF v.ok THEN v.n
         ELSE IF v.error = "PageNotAnInteger" \/ v.n < 1 THEN 1
         ELSE num_pages(Len(object_list), per_page),
         per_page)

\* Paginator.get_page: PageNotAnInteger gives the first page, EmptyPage
\* (a number below 1 or above num_pages) gives the last page.
get_page(object_list, number, per_page) ==
    LET v == validate_number(number, Len(object_list), per_page) IN
    page(object_list,
         IF v.ok THEN v.n
         ELSE IF v.error = "PageNotAnInteger" THEN 1
         ELSE num_pages(Len(object_list), per_page),
         per_page)

(***************************************************************************)
(* views.py, products_menu_views: the list action.                         *)
(*   o_products    outcome of GET /products                                *)
(*   o_categories  outcome of GET /categories (NoCall when not reached)    *)
(***************************************************************************)
ListParams(search, category_id) ==
    [k \in (IF search # "" THEN {"title"} ELSE {})
             \cup (IF category_id # "" THEN {"categoryId"} ELSE {})
       |-> IF k = "title" THEN search ELSE category_id]

\* The context of the except RequestException branch.
ListErrorContext ==
    [products |-> << >>, categories |-> << >>,
     stats |-> [total_products |-> 0, total_categories |-> 0],
     title |-> "Platzi Store - Error de Conexion", api_status |-> "error"]

ListSuccessContext(req, products_data, categories_data) ==
    LET page_obj == get_page(products_data, req.GET.page, PerPage) IN
    [page_obj |-> page_obj,
     products |-> page_obj.object_list,
     categories |-> categories_data,
     stats |-> [total_products |-> Len(products_data),
                total_categories |-> Len(categories_data),
                current_page |-> req.GET.page,
                total_pages |-> num_pages(Len(products_data), PerPage)],
     search_query |-> req.GET.search,
     selected_category |-> req.GET.category,
     title |-> "Platzi Store - Consultar Productos",
     api_status |-> "success"]

products_menu_views(req, o_products, o_categories) ==
    LET template == "products/product_list.html"
        calls1 == << Call("products_menu_views", "GET", "/products",
                          ListParams(req.GET.search, req.GET.category), None,
                          o_products) >>
        calls2 == Append(calls1, CategoriesCall("products_menu_views", o_categories))
        failed == << Message("error", "Error al conectar con la API de Platzi Store") >>
    IN
    IF o_products.kind # "ok"
    THEN \* requests.get, raise_for_status or response.json() raised
         Result(render(template), calls1, failed, ListErrorContext, None, NotCalled)
    ELSE IF o_categories.kind \in {"connection", "malformed"}
    THEN \* requests.get or categories_response.json() raised
         Result(render(template), calls2, failed, ListErrorContext, None, NotCalled)
    ELSE Result(render(template), calls2, << >>,
                ListSuccessContext(req, o_products.body,
                    IF o_categories.kind = "ok" THEN o_categories.body ELSE << >>),
                None, NotCalled)

(***************************************************************************)
(* views.py, get_product_detail: the detail action.                        *)
(***************************************************************************)
ProductPath(req) == "/products/" \o ToString(req.product_id)

get_product_detail(req, o_product) ==
    LET template == "products/product_list.html"
        calls == << Call("get_product_detail", "GET", ProductPath(req), None, None,
                         o_product) >>
    IN
    IF o_product.kind = "ok"
    THEN Result(render(template), calls, << >>,
                [product |-> Some(o_product.body), title |-> "Producto - Platzi Store"],
                None, NotCalled)
    ELSE IF o_product.kind \in {"connection", "malformed"}
    THEN Result(render(template), calls,
                << Message("error", "Error al obtener producto") >>,
                [product |-> None, title |-> "Error - Platzi Store"],
                None, NotCalled)
    ELSE Result(render(template), calls,
                << Message("error", "Producto no encontrado") >>,
                [product |-> None, title |-> "Producto no encontrado - Platzi Store"],
                None, NotCalled)

(***************************************************************************)
(* views.py, add_product: the add action.                                  *)
(*   o_categories  outcome of the view's own GET /categories               *)
(*   o_form        outcome of GET /categories in ProductForm.__init__      *)
(*   o_post        outcome of POST /products/ (NoCall when not sent)       *)
(*   o_reset       outcome of GET /categories in the ProductForm() that    *)
(*                 replaces the form after a 201 (NoCall when not reached) *)
(***************************************************************************)
FormCall(o) == CategoriesCall("ProductForm.load_categories", o)

\* The POST branch, from ProductForm(request.POST) on.  calls and msgs are
\* those of the view's category fetch.
add_product_post_Unchecked(req, calls, msgs, ctx, o_form, o_post, o_reset) ==
    LET template == "products/add_product.html"
        bound == ProductForm__init__(Some(req.POST), None, o_form)
        cleaned == full_clean(bound)
        calls2 == Append(calls, FormCall(o_form))
        product_data == get_product_data(cleaned)
        calls3 == Append(calls2, Call("add_product", "POST", "/products/", None,
                                      product_data, o_post))
    IN
    IF o_post.kind = "ok"
    THEN Result(render(template), Append(calls3, FormCall(o_reset)),
                Append(msgs, Message("success", "agregado exitosamente")),
                ctx, Some(ProductForm__init__(None, None, o_reset)),
                Returned(product_data))
    ELSE IF o_post.kind \in {"connection", "malformed"}
    THEN Result(render(template), calls3,
                Append(msgs, Message("error", "Error de conexion con la API")),
                ctx, Some(cleaned), Returned(product_data))
    ELSE Result(render(template), calls3,
                Append(msgs, Message("error", "No se pudo crear el producto")),
                ctx, Some(cleaned), Returned(product_data))

add_product_post(req, calls, msgs, ctx, o_form, o_post, o_reset) ==
    LET template == "products/add_product.html"
        bound == ProductForm__init__(Some(req.POST), None, o_form)
        cleaned == full_clean(bound)
        calls2 == Append(calls, FormCall(o_form))
    IN
    IF is_valid(cleaned)
    THEN LET product_data == get_product_data(cleaned)
             calls3 == Append(calls2, Call("add_product", "POST", "/products/", None,
                                           product_data, o_post))
         IN
         IF o_post.kind = "ok"
         THEN \* 201 with a JSON body: success, and an empty form
              Result(render(template), Append(calls3, FormCall(o_reset)),
                     Append(msgs, Message("success", "agregado exitosamente")),
                     ctx, Some(ProductForm__init__(None, None, o_reset)),
                     Returned(product_data))
         ELSE IF o_post.kind \in {"connection", "malformed"}
         THEN \* requests.post raised, or response.json() of the 201 did
              Result(render(template), calls3,
                     Append(msgs, Message("error", "Error de conexion con la API")),
                     ctx, Some(cleaned), Returned(product_data))
         ELSE \* another status: the server's message, or the generic one
              Result(render(template), calls3,
                     Append(msgs, Message("error", "No se pudo crear el producto")),
                     ctx, Some(cleaned), Returned(product_data))
    ELSE Result(render(template), calls2,
                Append(msgs, Message("error",
                    "Por favor corrige los errores en el formulario")),
                ctx, Some(cleaned), NotCalled)

add_product_view(req, o_categories, o_form, o_post, o_reset) ==
    LET categories == IF o_categories.kind = "ok" THEN o_categories.body ELSE << >>
        calls1 == << CategoriesCall("add_product", o_categories) >>
        msgs1 == IF o_categories.kind \in {"connection", "malformed"}
                 THEN << Message("warning", "No se pudieron cargar las categorias") >>
                 ELSE << >>
        ctx == [categories |-> categories, title |-> "Agregar Producto - Platzi Store"]
    IN
    IF req.method = "POST"
    THEN add_product_post(req, calls1, msgs1, ctx, o_form, o_post, o_reset)
    ELSE Result(render("products/add_product.html"),
                Append(calls1, FormCall(o_form)), msgs1, ctx,
                Some(ProductForm__init__(None, None, o_form)), NotCalled)

add_product(req, o_categories, o_form, o_post, o_reset) ==
    login_required(req, add_product_view(req, o_categories, o_form, o_post, o_reset))

(***************************************************************************)
(* views.py, update_product: the update action.                            *)
(*   o_product     outcome of GET /products/{id}          (GET)            *)
(*   o_categories  outcome of the view's GET /categories  (GET)            *)
(*   o_form        outcome of GET /categories in ProductForm.__init__      *)
(*   o_put         outcome of PUT /products/{id}          (POST)           *)
(***************************************************************************)
list_view == "products:products_menu_views"

\* form.get(key): None when the key was not submitted
post_get(post, key) == IF key \in DOMAIN post THEN Some(post[key]) ELSE None

updated_data(post) ==
    [title |-> post_get(post, "title"),
     price |-> post_get(post, "price"),
     description |-> post_get(post, "description"),
     categoryId |-> post_get(post, "category"),
     images |-> IF post_get(post, "image_url") \notin {None, Some("")}
                THEN << post["image_url"] >> ELSE << >>]

update_initial(product) ==
    [title |-> product.title,
     price |-> product.price,
     description |-> product.description,
     category |-> product.categoryId,
     image_url |-> IF product.images # << >> THEN product.images[1] ELSE ""]

\* BaseForm.get_initial_for_field, as the form's BoundFields apply it when
\* an unbound form is rendered: a field shows initial.get(name, field.initial),
\* and no field of ProductForm declares an initial of its own.  The result is
\* None or Some(value); the entry under "category" is product.get(
\* 'categoryId', None), an optional value already.
OptionalInitialKeys == {"category"}
get_initial_for_field(f, name) ==
    IF f.initial = None \/ name \notin DOMAIN f.initial[1] THEN None
    ELSE IF name \in OptionalInitialKeys THEN f.initial[1][name]
    ELSE Some(f.initial[1][name])

Back(msgs, calls) ==
    Result(redirect(list_view), calls, msgs, NoContext, None, NotCalled)

\* The GET branch.
update_product_get(req, o_product, o_categories, o_form) ==
    LET calls1 == << Call("update_product", "GET", ProductPath(req), None, None,
                          o_product) >>
        calls2 == Append(calls1, CategoriesCall("update_product", o_categories))
        fetch_failed == << Message("error", "Error al obtener el producto") >>
    IN
    IF o_product.kind = "ok"
    THEN IF o_categories.kind \in {"connection", "malformed"}
         THEN Back(fetch_failed, calls2)
         ELSE Result(render("products/update_product.html"),
                     Append(calls2, FormCall(o_form)), << >>,
                     [categories |-> IF o_categories.kind = "ok"
                                     THEN o_categories.body ELSE << >>,
                      title |-> "Actualizar Producto"],
                     Some(ProductForm__init__(None,
                              Some(update_initial(o_product.body)), o_form)),
                     NotCalled)
    ELSE IF o_product.kind \in {"connection", "malformed"}
    THEN Back(fetch_failed, calls1)
    ELSE Back(<< Message("error", "Producto no encontrado") >>, calls1)

\* The POST branch: the raw fields go to the PUT unvalidated.
update_product_post_Uncaught(req, o_put) ==
    LET calls == << Call("update_product", "PUT", ProductPath(req), None,
                         Some(updated_data(req.POST)), o_put) >>
    IN
    IF o_put.kind \in {"ok", "malformed"}
    THEN Back(<< Message("success", "Producto actualizado exitosamente!") >>, calls)
    ELSE IF o_put.kind = "connection"
    THEN Result(Raised("ConnectionError"), calls, << >>, NoContext, None, NotCalled)
    ELSE Back(<< Message("error", "Error al actualizar el producto.") >>, calls)

update_product_post(req, o_put) ==
    LET calls == << Call("update_product", "PUT", ProductPath(req), None,
                         Some(updated_data(req.POST)), o_put) >>
    IN
    IF o_put.kind \in {"ok", "malformed"}
    THEN Back(<< Message("success", "Producto actualizado exitosamente!") >>, calls)
    ELSE IF o_put.kind = "connection"
    THEN Back(<< Message("error", "Error de conexion con la API") >>, calls)
    ELSE Back(<< Message("error", "Error al actualizar el producto.") >>, calls)

update_product_view(req, o_product, o_categories, o_form, o_put) ==
    IF req.method = "GET"
    THEN update_product_get(req, o_product, o_categories, o_form)
    ELSE IF req.method = "POST"
    THEN update_product_post(req, o_put)
    ELSE \* neither branch is taken: the view returns None, which Django
         \* rejects ("didn't return an HttpResponse object")
         Result(Raised("ValueError"), << >>, << >>, NoContext, None, NotCalled)

update_product(req, o_product, o_categories, o_form, o_put) ==
    login_required(req,
        update_product_view(req, o_product, o_categories, o_form, o_put))

(***************************************************************************)
(* views.py, delete_product: the delete action.                            *)
(*   o_product  outcome of the first GET /products/{id}                    *)
(*   o_verify   outcome of the second GET /products/{id} (NoCall when the  *)
(*              product was fetched, or the request is not a POST)         *)
(*   o_delete   outcome of DELETE /products/{id} (NoCall when not sent)    *)
(***************************************************************************)
delete_product_view(req, o_product, o_verify, o_delete) ==
    LET product_data == IF o_product.kind = "ok" THEN Some(o_product.body) ELSE None
        fetch(o) == Call("delete_product", "GET", ProductPath(req), None, None, o)
        calls1 == << fetch(o_product) >>
        calls2 == IF product_data = None THEN Append(calls1, fetch(o_verify))
                  ELSE calls1
        calls3 == Append(calls2, Call("delete_product", "DELETE", ProductPath(req),
                                      None, None, o_delete))
    IN
    IF req.method = "POST"
    THEN IF product_data = None /\ o_verify.kind = "not_found"
         THEN Back(<< Message("error", "El producto no existe.") >>, calls2)
         ELSE IF product_data = None /\ o_verify.kind = "connection"
         THEN Back(<< Message("error", "Error de conexion con la API") >>, calls2)
         ELSE IF o_delete.kind \in {"ok", "no_content"}
         THEN IF product_data = None
              THEN \* product_data.get("title", ""): None has no get
                   Result(Raised("AttributeError"), calls3, << >>, NoContext,
                          None, NotCalled)
              ELSE Back(<< Message("success", "eliminado exitosamente!") >>, calls3)
         ELSE IF o_delete.kind = "connection"
         THEN Back(<< Message("error", "Error de conexion con la API") >>, calls3)
         ELSE Back(<< Message("error", "No se pudo eliminar el producto") >>, calls3)
    ELSE Result(render("products/delete_product.html"), calls1, << >>,
                [product |-> product_data, product_id |-> req.product_id],
                None, NotCalled)

delete_product(req, o_product, o_verify, o_delete) ==
    login_required(req, delete_product_view(req, o_product, o_verify, o_delete))

(***************************************************************************)
(* The inputs the model draws from.                                        *)
(***************************************************************************)
Methods == {"GET", "POST", "HEAD"}

PageParams ==
    {PageParam("absent", 0), PageParam("text", 0)}
      \cup {PageParam("int", n) : n \in -1..MaxPage}

Queries ==
    {Query(pg, f[1], f[2]) : pg \in PageParams, f \in {<<"", "">>, <<"phone", "1">>}}

ProductList(n) == [i \in 1..n |-> i]

ListOutcomes ==
    {Outcome("ok", ProductList(n)) : n \in 0..MaxProducts}
      \cup {Outcome(k, << >>) : k \in {"malformed", "status", "connection"}}

Product(c, imgs) ==
    [title |-> "Shirt", price |-> 10, description |-> "Cotton",
     categoryId |-> c, images |-> imgs]

ProductBodies ==
    {Product(Some("1"), << "https://a.io/1.png", "https://a.io/2.png" >>),
     Product(None, << >>)}

ProductOutcomes ==
    {Outcome("ok", b) : b \in ProductBodies}
      \cup {Outcome(k, << >>) : k \in {"malformed", "not_found", "status", "connection"}}

VerifyOutcomes ==
    {Outcome(k, << >>) : k \in {"ok", "not_found", "status", "connection"}}

DeleteOutcomes ==
    {Outcome(k, << >>) :
        k \in {"ok", "no_content", "not_found", "status", "status_raw", "connection"}}

PostOutcomes ==
    {Outcome(k, << >>) : k \in {"ok", "malformed", "status", "status_raw", "connection"}}

PutOutcomes ==
    {Outcome(k, << >>) : k \in {"ok", "malformed", "not_found", "status", "connection"}}

\* The view's own category fetch: one list stands for a successful one.
ViewCategoryOutcomes ==
    {Outcome("ok", << Category("1", "Clothes") >>)}
      \cup {Outcome(k, << >>) : k \in {"malformed", "status", "connection"}}

ProductIds == {4}

\* Submitted product forms.
Titles == {Text(0, 0), Text(1, 0), Text(1, 1), Text(0, TitleMaxLength),
           Text(0, TitleMaxLength + 1)}
Descriptions == {Text(0, 0), Text(1, 0), Text(1, 1)}
Prices ==
    {EmptyPrice, TextPrice,
     Dec(FALSE, 0, << >>),             \* 0
     Dec(FALSE, 0, <<0, 1>>),          \* 0.01
     Dec(FALSE, 0, <<0, 2>>),          \* 0.02
     Dec(FALSE, 12, <<5, 0>>),         \* 12.50
     Dec(FALSE, 1, <<0, 0, 5>>),       \* 1.005
     Dec(FALSE, 100000000, << >>)}     \* nine whole digits
CategoryIds == {"", "1", "2", "x"}
FirstImages == {EmptyURL, URL("https", "a.io"), URL("", "b.io"), URL("https", "a b")}
OtherImages == {EmptyURL, URL("https", "b.io"), URL("", "no host")}

FormInputs ==
    {FormData(t, p, d, c, u1, u2, u3) :
        t \in Titles, p \in Prices, d \in Descriptions, c \in CategoryIds,
        u1 \in FirstImages, u2 \in OtherImages, u3 \in OtherImages}

\* The forms posted to the add view: a valid one and one failing per rule.
ValidInput ==
    FormData(Text(1, 1), Dec(FALSE, 12, <<5, 0>>), Text(0, 1), "1",
             URL("https", "a.io"), EmptyURL, URL("https", "b.io"))

AddInputs ==
    {ValidInput,
     [ValidInput EXCEPT !.price = Dec(FALSE, 0, << >>)],
     [ValidInput EXCEPT !.title = Text(1, 0)],
     [ValidInput EXCEPT !.categoryId = "2"],
     [ValidInput EXCEPT !.image_url_1 = URL("", "b.io"),
                        !.image_url_2 = URL("https", "b.io")],
     [ValidInput EXCEPT !.image_url_1 = EmptyURL, !.image_url_3 = EmptyURL]}

\* The raw fields posted to the update view.
UpdateInputs ==
    {[title |-> "Shirt", price |-> "10", description |-> "Cotton",
      category |-> "1", image_url |-> "https://a.io/1.png"],
     [title |-> "", price |-> "free", description |-> "",
      category |-> "x", image_url |-> ""],
     [price |-> "-1"]}

(***************************************************************************)
(* The state machine of the views.  Each action handles one request, from  *)
(* its arrival to its response.  Nothing of a request outlives it (no      *)
(* cache, no module state), so the machine handles a request from the      *)
(* state in which none has been handled.                                   *)
(***************************************************************************)
NoRequest == Request("", "", FALSE, 0, NoQuery, None)

Init ==
    /\ request = NoRequest
    /\ response = NoResponse
    /\ upstream_calls = << >>
    /\ messages = << >>
    /\ context = NoContext
    /\ form = None
    /\ search_form = None
    /\ returned_data = NotCalled

Respond(result) ==
    /\ response' = result.response
    /\ upstream_calls' = result.upstream_calls
    /\ messages' = result.messages
    /\ context' = result.context
    /\ form' = result.form
    /\ returned_data' = result.returned_data
    /\ UNCHANGED search_form

\* The outcomes of a call the handler reaches only under a condition.
Reached(cond, outcomes) == IF cond THEN outcomes ELSE {NoCall}

List ==
    /\ request = NoRequest
    /\ \E a \in BOOLEAN, q \in Queries, o_products \in ListOutcomes :
         \E o_categories \in Reached(o_products.kind = "ok", CategoryOutcomes) :
           LET req == Request("list", "GET", a, 0, q, None) IN
           /\ request' = req
           /\ Respond(products_menu_views(req, o_products, o_categories))

Detail ==
    /\ request = NoRequest
    /\ \E a \in BOOLEAN, id \in ProductIds, o_product \in ProductOutcomes :
         LET req == Request("detail", "GET", a, id, NoQuery, None) IN
         /\ request' = req
         /\ Respond(get_product_detail(req, o_product))

Add ==
    /\ request = NoRequest
    /\ \E a \in BOOLEAN, m \in Methods :
         \E post \in (IF m = "POST" THEN AddInputs ELSE {None}),
            o_categories \in Reached(a, ViewCategoryOutcomes),
            o_form \in Reached(a, CategoryOutcomes) :
           LET req == Request("add", m, a, 0, NoQuery, post)
               sent == a /\ m = "POST"
                         /\ is_valid(ProductForm__init__(Some(post), None, o_form))
           IN
           \E o_post \in Reached(sent, PostOutcomes) :
             \E o_reset \in Reached(o_post.kind = "ok", CategoryOutcomes) :
               /\ request' = req
               /\ Respond(add_product(req, o_categories, o_form, o_post, o_reset))

Update ==
    /\ request = NoRequest
    /\ \E a \in BOOLEAN, m \in Methods, id \in ProductIds :
         \E post \in (IF m = "POST" THEN UpdateInputs ELSE {None}),
            o_product \in Reached(a /\ m = "GET", ProductOutcomes),
            o_put \in Reached(a /\ m = "POST", PutOutcomes) :
           \E o_categories \in Reached(o_product.kind = "ok", ViewCategoryOutcomes) :
             \E o_form \in Reached(o_categories.kind \in {"ok", "status"},
                                   CategoryOutcomes) :
               LET req == Request("update", m, a, id, NoQuery, post) IN
               /\ request' = req
               /\ Respond(update_product(req, o_product, o_categories, o_form, o_put))

Delete ==
    /\ request = NoRequest
    /\ \E a \in BOOLEAN, m \in Methods, id \in ProductIds :
         \E o_product \in Reached(a, ProductOutcomes) :
           \E o_verify \in Reached(a /\ m = "POST" /\ o_product.kind # "ok",
                                   VerifyOutcomes) :
             \E o_delete \in Reached(a /\ m = "POST"
                                       /\ o_verify.kind \notin {"not_found", "connection"},
                                     DeleteOutcomes) :
               LET req == Request("delete", m, a, id, NoQuery, None) IN
               /\ request' = req
               /\ Respond(delete_product(req, o_product, o_verify, o_delete))

Next == List \/ Detail \/ Add \/ Update \/ Delete

Spec == Init /\ [][Next]_vars

(***************************************************************************)
(* The state machine of the forms: a form is constructed for a request,    *)
(* validated, and asked for its payload.  The request, with its submitted  *)
(* data, is drawn at the start.                                            *)
(***************************************************************************)
FormRequests ==
    {Request("add", "POST", TRUE, 0, NoQuery, d) : d \in FormInputs}
      \cup {Request("add", "GET", TRUE, 0, NoQuery, None)}

FormInit ==
    /\ request \in FormRequests
    /\ response = NoResponse
    /\ upstream_calls = << >>
    /\ messages = << >>
    /\ context = NoContext
    /\ form = None
    /\ search_form = None
    /\ returned_data = NotCalled

\* ProductForm(request.POST) for a POST, ProductForm() otherwise
ConstructProductForm ==
    /\ form = None
    /\ \E o \in CategoryOutcomes :
         /\ form' = Some(ProductForm__init__(
                        IF request.method = "POST" THEN Some(request.POST) ELSE None,
                        None, o))
         /\ upstream_calls' = Append(upstream_calls, FormCall(o))
    /\ UNCHANGED <<request, response, messages, context, search_form, returned_data>>

\* form.is_valid()
Validate ==
    /\ form # None
    /\ form[1].is_bound /\ ~form[1].is_cleaned
    /\ form' = Some(full_clean(form[1]))
    /\ UNCHANGED <<request, response, upstream_calls, messages, context,
                   search_form, returned_data>>

\* form.get_product_data()
GetProductData ==
    /\ form # None
    /\ returned_data = NotCalled
    /\ returned_data' = Returned(get_product_data(form[1]))
    /\ form' = Some(full_clean(form[1]))
    /\ UNCHANGED <<request, response, upstream_calls, messages, context, search_form>>

\* ProductSearchForm(), the filter form of a GET
ConstructProductSearchForm ==
    /\ search_form = None
    /\ request.method = "GET"
    /\ \E o \in CategoryOutcomes :
         /\ search_form' = Some(ProductSearchForm__init__(o))
         /\ upstream_calls' = Append(upstream_calls,
                CategoriesCall("ProductSearchForm.load_categories", o))
    /\ UNCHANGED <<request, response, messages, context, form, returned_data>>

FormNext ==
    ConstructProductForm \/ Validate \/ GetProductData \/ ConstructProductSearchForm

FormSpec == FormInit /\ [][FormNext]_vars

(***************************************************************************)
(* Properties of the views (specification Spec).                           *)
(***************************************************************************)
Handled(view) == request.view = view
AuthenticatedPost(view) ==
    Handled(view) /\ request.method = "POST" /\ request.is_authenticated

CallsWith(verbs) ==
    {i \in 1..Len(upstream_calls) : upstream_calls[i].verb \in verbs}

\* C1: every authenticated POST to the delete action ends with a redirect to
\* the list view, whatever the outcomes of the product fetch, the
\* re-verification fetch and the DELETE.
DeletePostAlwaysRedirects ==
    AuthenticatedPost("delete") => response = redirect(list_view)

\* C2: every authenticated POST to the update action ends with a redirect to
\* the list view, whatever the raw fields (no form is built or validated)
\* and whatever the outcome of the PUT.
UpdatePostAlwaysRedirects ==
    AuthenticatedPost("update") =>
        /\ response = redirect(list_view)
        /\ form = None
        /\ CallsWith({"PUT"}) = {1}

\* An update POST with fields missing whose PUT met a connection failure
\* was redirected to the list.
UpdatePostRedirectedAfterFailure ==
    /\ AuthenticatedPost("update")
    /\ "title" \notin DOMAIN request.POST
    /\ upstream_calls[1].outcome = "connection"
    /\ response = redirect(list_view)

\* The number of pages of n products, at PerPage a page (at least one).
TotalPages(n) == IF n = 0 THEN 1 ELSE (n + PerPage - 1) \div PerPage

ListSucceeded == Handled("list") /\ context.api_status = "success"

RequestedPage == request.GET.page.n

PageOutOfRange ==
    /\ request.GET.page.kind = "int"
    /\ \/ RequestedPage < 1
       \/ RequestedPage > TotalPages(context.stats.total_products)

\* The products shown on page k of n products.
PageWindow(n, k) ==
    [i \in 1..(IF k * PerPage <= n THEN PerPage ELSE n - (k - 1) * PerPage)
       |-> (k - 1) * PerPage + i]

\* C3 (as stated): in the list action, a requested page number outside
\* [1, total_pages] displays the nearest valid page, page 1 when it is below
\* 1 and page total_pages when it is above, and no exception is raised.
OutOfRangePageShowsNearestPage ==
    /\ Handled("list") => response.kind = "render"
    /\ (ListSucceeded /\ PageOutOfRange) =>
          context.page_obj.number =
              IF RequestedPage < 1 THEN 1
              ELSE TotalPages(context.stats.total_products)

\* C3 (amended): in the list action, a requested page number outside
\* [1, total_pages], below 1 as well as above total_pages, displays the last
\* page, total_pages, with that page's products, and no exception is raised.
OutOfRangePageShowsLastPage ==
    /\ Handled("list") => response.kind = "render"
    /\ (ListSucceeded /\ PageOutOfRange) =>
          LET n == context.stats.total_products IN
          /\ context.page_obj.number = TotalPages(n)
          /\ context.products =
                (IF n = 0 THEN << >> ELSE PageWindow(n, TotalPages(n)))

\* Page 0 or -1 of a list of several pages was requested and the last page
\* is displayed.
PageBelowOneShowedLastPage ==
    /\ ListSucceeded
    /\ request.GET.page.kind = "int" /\ RequestedPage < 1
    /\ TotalPages(context.stats.total_products) > 1
    /\ context.page_obj.number = TotalPages(context.stats.total_products)

\* C7: in the add action, a POST whose form fails validation (for example
\* price = 0) sends no product-creation POST upstream, and the submitted
\* form is redisplayed with its field errors.
PlainlyInvalid(d) ==
    \/ d.title.len = 0
    \/ d.description.len = 0
    \/ d.price.kind # "number"
    \/ d.price.whole = 0 /\ AllZero(d.price.frac)
    \/ d.image_url_1 = EmptyURL

FormFailedValidation ==
    form # None /\ form[1].is_bound /\ DOMAIN form[1].errors # {}

AddInvalidFormSendsNothing ==
    (AuthenticatedPost("add") /\ (PlainlyInvalid(request.POST) \/ FormFailedValidation))
    => /\ CallsWith({"POST"}) = {}
       /\ returned_data = NotCalled
       /\ response = render("products/add_product.html")
       /\ FormFailedValidation
       /\ form[1].data = Some(request.POST)

\* A form with price 0 was posted and is redisplayed with an error on price.
AddPriceZeroRedisplayed ==
    /\ AuthenticatedPost("add")
    /\ request.POST.price = Dec(FALSE, 0, << >>)
    /\ response = render("products/add_product.html")
    /\ FormFailedValidation
    /\ "price" \in DOMAIN form[1].errors

\* C8: no mutating upstream call (POST, PUT, DELETE) is issued for an
\* unauthenticated caller: add, update and delete redirect to login before
\* any upstream call, while list and detail are still rendered.
UnauthenticatedNeverMutates ==
    (request # NoRequest /\ ~request.is_authenticated) =>
        /\ CallsWith({"POST", "PUT", "DELETE"}) = {}
        /\ request.view \in {"add", "update", "delete"} =>
              response = redirect("login") /\ upstream_calls = << >>
        /\ request.view \in {"list", "detail"} =>
              response.kind = "render" /\ upstream_calls # << >>

\* An unauthenticated POST to the delete action was redirected to login.
UnauthenticatedDeleteRedirected ==
    /\ Handled("delete") /\ request.method = "POST" /\ ~request.is_authenticated
    /\ response = redirect("login")

\* C9: every authenticated request to the add action ends by rendering the
\* add page, whatever the outcomes of its upstream calls, and the form is
\* reset to an empty one exactly when the POST returned status 201.
PostReturned201 ==
    \E i \in CallsWith({"POST"}) : upstream_calls[i].outcome \in {"ok", "malformed"}

AddAlwaysRendersAndResetsOn201 ==
    (Handled("add") /\ request.is_authenticated) =>
        /\ response = render("products/add_product.html")
        /\ request.method = "POST" => (~form[1].is_bound <=> PostReturned201)

\* C10: in the list action, once the products fetch has succeeded, a failure
\* of the categories fetch (non-200 status or connection failure) only
\* empties the category list: the success view is rendered, never the error
\* view.
CategoriesFailureOnlyDegrades ==
    (/\ Handled("list")
     /\ Len(upstream_calls) = 2
     /\ upstream_calls[1].outcome = "ok"
     /\ upstream_calls[2].outcome \in {"status", "connection"})
    => /\ context.api_status = "success"
       /\ context.categories = << >>

(***************************************************************************)
(* Properties of the forms (specification FormSpec).                       *)
(***************************************************************************)
OneSentinel(choices) == Len(choices) = 1 /\ choices[1][1] = ""

\* C4: for the product form and for the search form, when the category fetch
\* fails (non-200 status or connection failure) the form is still
\* constructed and its category field has exactly one choice, the sentinel
\* with the empty value.
CategoryFailureYieldsOneSentinel ==
    \A i \in 1..Len(upstream_calls) :
        upstream_calls[i].outcome \in {"status", "connection"} =>
            /\ upstream_calls[i].site = "ProductForm.load_categories" =>
                  form # None /\ OneSentinel(form[1].choices)
            /\ upstream_calls[i].site = "ProductSearchForm.load_categories" =>
                  search_form # None /\ OneSentinel(search_form[1].choices)

FormCleaned == form # None /\ form[1].is_bound /\ form[1].is_cleaned
FormValid == DOMAIN form[1].errors = {}

NonBlank(t) == t.len > 0
Positive(p) == p.kind = "number" /\ ~p.neg /\ ~(p.whole = 0 /\ AllZero(p.frac))
WellFormed(u) == u.host \in ValidHosts /\ u.scheme \in ValidSchemes \cup {""}
Loaded(c) == \E i \in 1..Len(form[1].choices) : form[1].choices[i][1] = c

\* The five conditions the claim names, on the submitted data.
NamedConditions(d) ==
    /\ NonBlank(d.title)
    /\ NonBlank(d.description)
    /\ Positive(d.price)
    /\ d.categoryId \in IntStrings
    /\ WellFormed(d.image_url_1)

\* C5 (as stated): a submitted product form is valid iff title and
\* description are non-empty after trimming, price > 0, categoryId resolves
\* to an integer and image_url_1 is a well-formed URL; nothing else changes
\* validity.
ValidIffNamedConditions ==
    FormCleaned => (FormValid <=> NamedConditions(request.POST))

\* C5 (amended): a submitted product form is valid iff title and description
\* are non-empty after trimming, the trimmed title has at most 200
\* characters, price is above 0.01 with at most 2 decimal places and at most
\* 8 integer digits, categoryId is one of the loaded category choices and
\* resolves to an integer, image_url_1 is a well-formed URL, and image_url_2
\* and image_url_3 are each empty or a well-formed URL.
ValidIffAllDeclaredRules ==
    FormCleaned =>
        LET d == request.POST IN
        FormValid <=>
            /\ NamedConditions(d)
            /\ d.title.len <= TitleMaxLength
            /\ d.price.whole > 0 \/ 10 * FracDigit(d.price.frac, 1)
                                      + FracDigit(d.price.frac, 2) > 1
            /\ Len(d.price.frac) <= 2
            /\ d.price.whole < 100000000
            /\ Loaded(d.categoryId)
            /\ \A u \in {d.image_url_2, d.image_url_3} : u = EmptyURL \/ WellFormed(u)

\* A form meeting every rule was validated and found valid.
ValidFormValidated ==
    /\ FormCleaned /\ FormValid
    /\ request.POST.title = Text(1, 1)
    /\ request.POST.image_url_2 # EmptyURL

\* C6: for a valid form get_product_data returns a payload whose images list
\* is non-empty, starts with image_url_1 and continues with exactly the
\* non-empty values among image_url_2 and image_url_3, in that order; for an
\* invalid form it returns no result.
Present(u) == IF u = EmptyURL THEN << >> ELSE << u >>

UpdateFormRendered ==
    /\ Handled("update") /\ request.method = "GET" /\ request.is_authenticated
    /\ upstream_calls # << >> /\ upstream_calls[1].outcome = "ok"
    /\ response.kind = "render" /\ form # None

\* C11: on a GET to the update action whose product fetch returns 200, the
\* rendered product form shows the product's five current values: title,
\* price and description in the fields of those names, the product's
\* category id in the field categoryId and the product's first image URL in
\* the field image_url_1.
UpdateFormPrefilledWithAllFive ==
    UpdateFormRendered =>
        LET product == upstream_calls[1].body
            shown(name) == get_initial_for_field(form[1], name)
        IN /\ shown("title") = Some(product.title)
           /\ shown("price") = Some(product.price)
           /\ shown("description") = Some(product.description)
           /\ shown("categoryId") = product.categoryId
           /\ product.images # << >> => shown("image_url_1") = Some(product.images[1])

====
